---- MODULE Spec2Model ----
(***************************************************************************)
(* Model of the homebuyer terminal wizard (src/src/main.rs): the input     *)
(* state machine (the handle_*_input functions driven by run_app) and the  *)
(* amortization engine App::calculate_mortgage, with App::export_to_csv.   *)
(*                                                                         *)
(* Text fields are sequences of one-character strings.  An f64 is          *)
(* modelled as a fixed-point integer counting 1/Scale units, saturating at *)
(* +-MaxNum, with one extra value NaN (the result of 0/0).  Products and   *)
(* quotients are truncated toward zero, except in the level-payment        *)
(* formula, which rounds away from zero (see monthly_payment_of).          *)
(***************************************************************************)
EXTENDS Integers, Sequences, FiniteSets, TLC

----------------------------------------------------------------------------
(* Bounds of the model.                                                    *)

\* Fixed-point resolution: Scale = ScaleRoot^2 units per 1.0.
ScaleRoot == 1000
\* Largest magnitude a number holds (in 1/Scale units); larger results saturate.
MaxNum == 1000000000
\* What one session may spend on counted events: an edit (a Character,
\* Backspace or Tab event) costs EditCost, a cursor move or an export costs 1.
MaxCost == 4
EditCost == 2

(* Program constants.                                                      *)

\* for month in 1..=360
MaxMonths == 360
\* (current + 10).min(..), current.saturating_sub(10)
PageStride == 10

Scale == ScaleRoot * ScaleRoot

----------------------------------------------------------------------------
(* f64 arithmetic.                                                         *)

NaN == MaxNum + 1

IsNaN(x) == x = NaN

Abs(x) == IF x < 0 THEN -x ELSE x

Sat(x) == IF x > MaxNum THEN MaxNum ELSE IF x < -MaxNum THEN -MaxNum ELSE x

\* The literal n.0 (100.0, 12.0, 1.0, 0.0) and the cast `n as f64`.
Lit(n) == IF n > MaxNum \div Scale THEN MaxNum
          ELSE IF n < -(MaxNum \div Scale) THEN -MaxNum
          ELSE n * Scale

Add(a, b) == IF IsNaN(a) \/ IsNaN(b) THEN NaN ELSE Sat(a + b)

Sub(a, b) == IF IsNaN(a) \/ IsNaN(b) THEN NaN ELSE Sat(a - b)

\* Comparisons: every comparison with NaN is false.
Lt(a, b) == ~IsNaN(a) /\ ~IsNaN(b) /\ a < b

Gt(a, b) == ~IsNaN(a) /\ ~IsNaN(b) /\ a > b

Le(a, b) == ~IsNaN(a) /\ ~IsNaN(b) /\ a <= b

\* |a| * |b| / Scale for magnitudes a, b <= MaxNum, saturating; `up` rounds
\* the last unit up instead of truncating.  Two limbs of ScaleRoot keep every
\* intermediate product inside TLC's 32-bit integers.
MulMag(a, b, up) ==
    LET a1 == a \div ScaleRoot
        a0 == a % ScaleRoot
        b1 == b \div ScaleRoot
        b0 == b % ScaleRoot
        low == a0 * b0
        mid == a1 * b0 + a0 * b1 + (low \div ScaleRoot)
        inexact == (low % ScaleRoot # 0) \/ (mid % ScaleRoot # 0)
    IN  IF a1 > 0 /\ b1 > MaxNum \div a1
        THEN MaxNum
        ELSE Sat(a1 * b1 + (mid \div ScaleRoot)
                 + (IF up /\ inexact THEN 1 ELSE 0))

MulR(a, b, up) ==
    IF IsNaN(a) \/ IsNaN(b) THEN NaN
    ELSE IF (a < 0) = (b < 0) THEN MulMag(Abs(a), Abs(b), up)
    ELSE -MulMag(Abs(a), Abs(b), up)

Mul(a, b) == MulR(a, b, FALSE)

\* (r * m) divided by b, quotient and remainder, for 0 <= r < b, by doubling:
\* no intermediate value reaches 2 * b.
RECURSIVE MulDivMod(_, _, _)
MulDivMod(r, m, b) ==
    IF m = 0 THEN [q |-> 0, r |-> 0]
    ELSE LET h == MulDivMod(r, m \div 2, b)
             dq == 2 * h.q + (IF 2 * h.r >= b THEN 1 ELSE 0)
             dr == IF 2 * h.r >= b THEN 2 * h.r - b ELSE 2 * h.r
         IN  IF m % 2 = 0 THEN [q |-> dq, r |-> dr]
             ELSE IF dr + r >= b THEN [q |-> dq + 1, r |-> dr + r - b]
             ELSE [q |-> dq, r |-> dr + r]

\* |a| * Scale / |b| for magnitudes, b > 0, saturating: the exact quotient
\* cut to the digits carried, by a long division in two digits of ScaleRoot.
\* `up` rounds an inexact quotient up, otherwise it is rounded down.
DivMag(a, b, up) ==
    LET whole == a \div b
        d1 == MulDivMod(a % b, ScaleRoot, b)
        d2 == MulDivMod(d1.r, ScaleRoot, b)
    IN  IF whole > MaxNum \div Scale
        THEN MaxNum
        ELSE Sat(whole * Scale + d1.q * ScaleRoot + d2.q
                 + (IF up /\ d2.r # 0 THEN 1 ELSE 0))

DivR(a, b, up) ==
    IF IsNaN(a) \/ IsNaN(b) THEN NaN
    ELSE IF b = 0 THEN (IF a = 0 THEN NaN ELSE IF a > 0 THEN MaxNum ELSE -MaxNum)
    ELSE IF (a < 0) = (b < 0) THEN DivMag(Abs(a), Abs(b), up)
    ELSE -DivMag(Abs(a), Abs(b), up)

Div(a, b) == DivR(a, b, FALSE)

\* x / n.0 for a literal n > 0 (x / 100.0, x / 12.0).
DivLit(x, n) ==
    IF IsNaN(x) THEN NaN
    ELSE IF x < 0 THEN -((-x) \div n)
    ELSE x \div n

\* f64::powf(base, n as f64) for an integral n >= 0, by repeated squaring.
RECURSIVE Powf(_, _)
Powf(base, n) ==
    IF n <= 0 THEN Lit(1)
    ELSE LET h == Powf(base, n \div 2)
             sq == Mul(h, h)
         IN  IF n % 2 = 1 THEN Mul(sq, base) ELSE sq

\* `x as i32` of an f64: truncation toward zero, NaN gives 0.
AsI32(x) ==
    IF IsNaN(x) THEN 0
    ELSE IF x < 0 THEN -((-x) \div Scale)
    ELSE x \div Scale

----------------------------------------------------------------------------
(* str::parse::<f64> on the characters the wizard can put in a field.      *)

Digits == {"0", "1", "2", "3", "4", "5", "6", "7", "8", "9"}

DigitVal(c) ==
    CASE c = "0" -> 0 [] c = "1" -> 1 [] c = "2" -> 2 [] c = "3" -> 3
      [] c = "4" -> 4 [] c = "5" -> 5 [] c = "6" -> 6 [] c = "7" -> 7
      [] c = "8" -> 8 [] c = "9" -> 9

\* The text after an optional leading sign.
Unsigned(s) == IF Len(s) > 0 /\ s[1] = "-" THEN Tail(s) ELSE s

DotCount(s) == Cardinality({i \in 1..Len(s) : s[i] = "."})

\* Whether parse::<f64>() is Ok: digits with at most one '.', at least one
\* digit, after an optional '-'.
ParseOk(s) ==
    LET body == Unsigned(s)
    IN  /\ \A i \in 1..Len(body) : body[i] \in Digits \cup {"."}
        /\ DotCount(body) <= 1
        /\ \E i \in 1..Len(body) : body[i] \in Digits

\* Value of a digit string as a whole number, capped at the largest whole
\* number a model number holds.
RECURSIVE WholeVal(_)
WholeVal(ds) ==
    IF Len(ds) = 0 THEN 0
    ELSE LET v == WholeVal(SubSeq(ds, 1, Len(ds) - 1)) * 10 + DigitVal(ds[Len(ds)])
         IN  IF v > MaxNum \div Scale THEN MaxNum \div Scale ELSE v

\* Value of the digits after the '.', in 1/Scale units.
RECURSIVE FracVal(_)
FracVal(ds) ==
    IF Len(ds) = 0 THEN 0
    ELSE (DigitVal(ds[1]) * Scale + FracVal(Tail(ds))) \div 10

\* The parsed value of a text for which ParseOk holds.
ParseVal(s) ==
    LET body == Unsigned(s)
        dot == IF DotCount(body) = 0 THEN Len(body) + 1
               ELSE CHOOSE i \in 1..Len(body) : body[i] = "."
        mag == Sat(WholeVal(SubSeq(body, 1, dot - 1)) * Scale
                   + FracVal(SubSeq(body, dot + 1, Len(body))))
    IN  IF Len(s) > 0 /\ s[1] = "-" THEN -mag ELSE mag

----------------------------------------------------------------------------
(* App::calculate_mortgage.                                                *)

\* Option<T>: None is the empty sequence, Some(x) the one-element sequence.
None == <<>>

Some(x) == <<x>>

\* A clear that leaves the rows where they are.
vec_clear_keep(v) == v

\* Vec::clear (line 216).
vec_clear(v) == <<>>

\* 0.20, the down-payment fraction below which PMI applies.
PmiThreshold == Scale \div 5

\* A level payment that, without interest, spreads the loan over the years
\* instead of the months.
monthly_payment_per_year(loan_amount, monthly_interest_rate, num_payments) ==
    IF Gt(monthly_interest_rate, 0)
    THEN LET pow == Powf(Add(Lit(1), monthly_interest_rate), num_payments)
         IN  DivR(MulR(loan_amount, MulR(monthly_interest_rate, pow, TRUE), TRUE),
                  Sub(pow, Lit(1)), TRUE)
    ELSE DivR(loan_amount, Lit(num_payments \div 12), TRUE)

\* A level payment whose divisor is the compounding factor itself, not the
\* factor less one.
monthly_payment_over_factor(loan_amount, monthly_interest_rate, num_payments) ==
    IF Gt(monthly_interest_rate, 0)
    THEN LET pow == Powf(Add(Lit(1), monthly_interest_rate), num_payments)
         IN  DivR(MulR(loan_amount, MulR(monthly_interest_rate, pow, TRUE), TRUE),
                  pow, TRUE)
    ELSE DivR(loan_amount, Lit(num_payments), TRUE)

\* The level payment (lines 163-168).  The quotient and the products that
\* feed it round away from zero; the power is truncated, which lowers the
\* compounding factor and so never lowers the payment.  The modelled payment
\* is therefore never below the exact one, and a loan of num_payments
\* payments is paid off within num_payments months.
monthly_payment_of(loan_amount, monthly_interest_rate, num_payments) ==
    IF Gt(monthly_interest_rate, 0)
    THEN LET pow == Powf(Add(Lit(1), monthly_interest_rate), num_payments)
         IN  DivR(MulR(loan_amount, MulR(monthly_interest_rate, pow, TRUE), TRUE),
                  Sub(pow, Lit(1)), TRUE)
    ELSE DivR(loan_amount, Lit(num_payments), TRUE)

\* A PMI test that also charges a down payment of exactly 20 %.
pmi_applies_at_threshold(down_payment_percent) ==
    Le(down_payment_percent, PmiThreshold)

\* A PMI test with the comparison turned round.
pmi_applies_above(down_payment_percent) == Gt(down_payment_percent, PmiThreshold)

\* down_payment_percent < 0.20 (lines 200 and 261).
pmi_applies(down_payment_percent) == Lt(down_payment_percent, PmiThreshold)

\* A percent-or-amount category that parses both of its texts.
RateOrAmount_parsing_both(use_percent, percent, amount) ==
    IF ~(ParseOk(percent) /\ ParseOk(amount))
    THEN [ok |-> FALSE, rate |-> 0, amount |-> 0]
    ELSE IF use_percent
         THEN [ok |-> TRUE, rate |-> DivLit(ParseVal(percent), 100), amount |-> 0]
         ELSE [ok |-> TRUE, rate |-> 0, amount |-> ParseVal(amount)]

\* A percent-or-amount category: (rate, 0.0) or (0.0, amount), or a parse
\* failure (lines 173-197).
RateOrAmount(use_percent, percent, amount) ==
    IF use_percent
    THEN IF ParseOk(percent)
         THEN [ok |-> TRUE, rate |-> DivLit(ParseVal(percent), 100), amount |-> 0]
         ELSE [ok |-> FALSE, rate |-> 0, amount |-> 0]
    ELSE IF ParseOk(amount)
         THEN [ok |-> TRUE, rate |-> 0, amount |-> ParseVal(amount)]
         ELSE [ok |-> FALSE, rate |-> 0, amount |-> 0]

\* Lines 145-214: every value resolved before the loop.  ok is FALSE when
\* one of the `?` returned the parse error.
Resolve(inp) ==
    IF ~(/\ ParseOk(inp.house_value)
         /\ ParseOk(inp.hoa_fee)
         /\ ParseOk(inp.interest_rate)
         /\ ParseOk(IF inp.use_percent THEN inp.down_payment_percent
                    ELSE inp.down_payment_amount)
         /\ ParseOk(inp.loan_term_years)
         /\ ParseOk(inp.extra_principal_payment))
    THEN [ok |-> FALSE]
    ELSE
    LET house_value == ParseVal(inp.house_value)
        annual_interest_rate == DivLit(ParseVal(inp.interest_rate), 100)
        monthly_interest_rate == DivLit(annual_interest_rate, 12)
        down_payment ==
            IF inp.use_percent
            THEN Mul(house_value, DivLit(ParseVal(inp.down_payment_percent), 100))
            ELSE ParseVal(inp.down_payment_amount)
        loan_amount == Sub(house_value, down_payment)
        down_payment_percent == Div(down_payment, house_value)
        num_payments == AsI32(Mul(ParseVal(inp.loan_term_years), Lit(12)))
        tax == RateOrAmount(inp.use_property_tax_percent,
                            inp.property_tax_percent, inp.property_tax_amount)
        ins == RateOrAmount(inp.use_insurance_percent,
                            inp.insurance_percent, inp.insurance_amount)
        maint == RateOrAmount(inp.use_maintenance_percent,
                              inp.maintenance_percent, inp.maintenance_amount)
        pmi == IF pmi_applies(down_payment_percent)
               THEN RateOrAmount(inp.use_pmi_percent, inp.pmi_percent, inp.pmi_amount)
               ELSE [ok |-> TRUE, rate |-> 0, amount |-> 0]
    IN  IF ~(tax.ok /\ ins.ok /\ maint.ok /\ pmi.ok
             /\ ParseOk(inp.house_appreciation_rate))
        THEN [ok |-> FALSE]
        ELSE [ok |-> TRUE,
              house_value |-> house_value,
              hoa_monthly |-> ParseVal(inp.hoa_fee),
              annual_interest_rate |-> annual_interest_rate,
              monthly_interest_rate |-> monthly_interest_rate,
              down_payment |-> down_payment,
              loan_amount |-> loan_amount,
              down_payment_percent |-> down_payment_percent,
              num_payments |-> num_payments,
              monthly_payment |->
                  monthly_payment_of(loan_amount, monthly_interest_rate, num_payments),
              extra_principal |-> ParseVal(inp.extra_principal_payment),
              annual_tax_rate |-> tax.rate,
              annual_tax_amount |-> tax.amount,
              annual_insurance_rate |-> ins.rate,
              annual_insurance_amount |-> ins.amount,
              annual_maintenance_rate |-> maint.rate,
              annual_maintenance_amount |-> maint.amount,
              pmi_rate |-> pmi.rate,
              monthly_pmi_amount |-> pmi.amount,
              monthly_appreciation_rate |->
                  DivLit(DivLit(ParseVal(inp.house_appreciation_rate), 100), 12)]

\* Lines 216-231: the loop's variables before the first iteration.  `broke`
\* records that the loop has taken its break.
LoopInit(p, data) ==
    [rows |-> vec_clear(data),
     remaining_balance |-> p.loan_amount,
     current_house_value |-> p.house_value,
     total_interest |-> 0, total_principal |-> 0, total_taxes |-> 0,
     total_insurance |-> 0, total_maintenance |-> 0, total_pmi |-> 0,
     total_hoa |-> 0, total_payments |-> 0, total_cost_of_capital |-> 0,
     total_waste_cost |-> 0, actual_months |-> 0, broke |-> FALSE]

\* Lines 242-244: the principal after the overpayment check.
capped_principal(principal_payment, extra_principal, remaining_balance) ==
    IF Gt(Add(principal_payment, extra_principal), remaining_balance)
    THEN remaining_balance
    ELSE principal_payment

\* A balance update that takes the extra principal with the wrong sign.
balance_after_adding_extra(remaining_balance, principal_payment, extra_principal) ==
    Sub(remaining_balance, Sub(principal_payment, extra_principal))

\* A balance update that leaves the extra principal out.
balance_after_scheduled_only(remaining_balance, principal_payment, extra_principal) ==
    Sub(remaining_balance, principal_payment)

\* Line 291: remaining_balance -= principal_payment + extra_principal.
balance_after(remaining_balance, principal_payment, extra_principal) ==
    Sub(remaining_balance, Add(principal_payment, extra_principal))

\* An equity that leaves the balance out.
equity_without_debt(current_house_value, remaining_balance) == current_house_value

\* current_house_value - remaining_balance, taken before the month's
\* principal comes off the balance (line 281).
equity_of(current_house_value, remaining_balance) ==
    Sub(current_house_value, remaining_balance)

\* A month's cost that keeps the extra principal in.
total_cost_keeping_extra(total_payment, principal_payment, extra_principal, cost_of_capital) ==
    Add(Sub(total_payment, principal_payment), cost_of_capital)

\* total_payment - principal_payment - extra_principal + cost_of_capital
\* (line 288).
total_cost_of(total_payment, principal_payment, extra_principal, cost_of_capital) ==
    Add(Sub(Sub(total_payment, principal_payment), extra_principal),
        cost_of_capital)

\* A house value that is never compounded.
appreciated_never(current_house_value, monthly_appreciation_rate) ==
    current_house_value

\* current_house_value *= 1.0 + monthly_appreciation_rate (line 247).
appreciated(current_house_value, monthly_appreciation_rate) ==
    Mul(current_house_value, Add(Lit(1), monthly_appreciation_rate))

\* A loop test that goes on at a balance of exactly 0.
paid_off_below_zero(remaining_balance) == Lt(remaining_balance, 0)

\* remaining_balance <= 0.0 (line 234).
paid_off(remaining_balance) == Le(remaining_balance, 0)

\* A month number that does not follow the loop variable.
row_month_stuck(month) == 1

\* The row's month number and the month recorded in actual_months (lines
\* 304 and 307).
row_month(month) == month

\* Lines 234-324: one iteration of the loop, for the given month.
MonthStep(p, st, month) ==
    IF st.broke THEN st
    ELSE IF paid_off(st.remaining_balance) THEN [st EXCEPT !.broke = TRUE]
    ELSE
    LET remaining_balance == st.remaining_balance
        interest_payment == Mul(remaining_balance, p.monthly_interest_rate)
        principal_payment ==
            capped_principal(Sub(p.monthly_payment, interest_payment),
                             p.extra_principal, remaining_balance)
        current_house_value ==
            appreciated(st.current_house_value, p.monthly_appreciation_rate)
        monthly_taxes ==
            IF Gt(p.annual_tax_rate, 0)
            THEN DivLit(Mul(current_house_value, p.annual_tax_rate), 12)
            ELSE DivLit(p.annual_tax_amount, 12)
        monthly_insurance ==
            IF Gt(p.annual_insurance_rate, 0)
            THEN DivLit(Mul(current_house_value, p.annual_insurance_rate), 12)
            ELSE DivLit(p.annual_insurance_amount, 12)
        monthly_pmi ==
            IF pmi_applies(p.down_payment_percent) /\ Gt(remaining_balance, 0)
            THEN IF Gt(p.pmi_rate, 0)
                 THEN DivLit(Mul(remaining_balance, p.pmi_rate), 12)
                 ELSE p.monthly_pmi_amount
            ELSE 0
        monthly_repairs ==
            IF Gt(p.annual_maintenance_rate, 0)
            THEN DivLit(Mul(current_house_value, p.annual_maintenance_rate), 12)
            ELSE DivLit(p.annual_maintenance_amount, 12)
        total_payment ==
            Add(Add(Add(Add(Add(Add(Add(interest_payment, principal_payment),
                p.extra_principal), monthly_repairs), p.hoa_monthly),
                monthly_taxes), monthly_insurance), monthly_pmi)
        equity == equity_of(current_house_value, remaining_balance)
        cost_of_capital == DivLit(Mul(equity, p.annual_interest_rate), 12)
        waste_cost ==
            Add(Add(Add(Add(Add(Add(interest_payment, monthly_repairs),
                p.hoa_monthly), monthly_taxes), monthly_insurance), monthly_pmi),
                cost_of_capital)
        total_cost ==
            total_cost_of(total_payment, principal_payment, p.extra_principal,
                          cost_of_capital)
        new_balance ==
            balance_after(remaining_balance, principal_payment, p.extra_principal)
        row == [month |-> row_month(month),
                interest |-> interest_payment,
                principal |-> principal_payment,
                extra_principal |-> p.extra_principal,
                repair_costs |-> monthly_repairs,
                hoa |-> p.hoa_monthly,
                taxes |-> monthly_taxes,
                insurance |-> monthly_insurance,
                pmi |-> monthly_pmi,
                actual_payment |-> total_payment,
                cost_of_capital |-> cost_of_capital,
                waste_cost |-> waste_cost,
                cost |-> total_cost,
                debt |-> new_balance,
                interest_rate |-> p.annual_interest_rate,
                house_cost |-> current_house_value,
                equity |-> equity]
    IN  [rows |-> Append(st.rows, row),
         remaining_balance |-> new_balance,
         current_house_value |-> current_house_value,
         total_interest |-> Add(st.total_interest, interest_payment),
         total_principal |->
             Add(st.total_principal, Add(principal_payment, p.extra_principal)),
         total_taxes |-> Add(st.total_taxes, monthly_taxes),
         total_insurance |-> Add(st.total_insurance, monthly_insurance),
         total_maintenance |-> Add(st.total_maintenance, monthly_repairs),
         total_pmi |-> Add(st.total_pmi, monthly_pmi),
         total_hoa |-> Add(st.total_hoa, p.hoa_monthly),
         total_payments |-> Add(st.total_payments, total_payment),
         total_cost_of_capital |-> Add(st.total_cost_of_capital, cost_of_capital),
         total_waste_cost |-> Add(st.total_waste_cost, waste_cost),
         actual_months |-> row_month(month),
         broke |-> FALSE]

\* The iterations for months lo..hi in order (line 233), halving the range so
\* that the evaluation stays shallow.
RECURSIVE RunMonths(_, _, _, _)
RunMonths(p, st, lo, hi) ==
    IF st.broke \/ lo > hi THEN st
    ELSE IF lo = hi THEN MonthStep(p, st, lo)
    ELSE LET mid == (lo + hi) \div 2
         IN  RunMonths(p, RunMonths(p, st, lo, mid), mid + 1, hi)

\* A summary with the totals of taxes and insurance in each other's place.
SummaryOf_swapped(st) ==
    [total_interest_paid |-> st.total_interest,
     total_principal_paid |-> st.total_principal,
     total_taxes_paid |-> st.total_insurance,
     total_insurance_paid |-> st.total_taxes,
     total_maintenance_paid |-> st.total_maintenance,
     total_pmi_paid |-> st.total_pmi,
     total_hoa_paid |-> st.total_hoa,
     total_payments |-> st.total_payments,
     total_cost_of_capital |-> st.total_cost_of_capital,
     total_waste_cost |-> st.total_waste_cost,
     final_house_value |-> st.current_house_value,
     final_equity |-> st.current_house_value,
     months_to_payoff |-> st.actual_months,
     effective_interest_rate |->
         IF Gt(st.total_principal, 0)
         THEN Mul(Div(st.total_interest, st.total_principal),
                  Div(Lit(12), Lit(st.actual_months)))
         ELSE 0]

\* Lines 327-351: the summary built from the loop's final variables.
SummaryOf(st) ==
    [total_interest_paid |-> st.total_interest,
     total_principal_paid |-> st.total_principal,
     total_taxes_paid |-> st.total_taxes,
     total_insurance_paid |-> st.total_insurance,
     total_maintenance_paid |-> st.total_maintenance,
     total_pmi_paid |-> st.total_pmi,
     total_hoa_paid |-> st.total_hoa,
     total_payments |-> st.total_payments,
     total_cost_of_capital |-> st.total_cost_of_capital,
     total_waste_cost |-> st.total_waste_cost,
     final_house_value |-> st.current_house_value,
     final_equity |-> st.current_house_value,
     months_to_payoff |-> st.actual_months,
     effective_interest_rate |->
         IF Gt(st.total_principal, 0)
         THEN Mul(Div(st.total_interest, st.total_principal),
                  Div(Lit(12), Lit(st.actual_months)))
         ELSE 0]

\* The call with the rows and the Summary dropped before the fields are
\* parsed.
calculate_mortgage_clear_first(inp, data, summ) ==
    LET p == Resolve(inp)
    IN  IF ~p.ok
        THEN [err |-> TRUE, spreadsheet_data |-> <<>>, summary |-> None]
        ELSE LET st == RunMonths(p, LoopInit(p, data), 1, MaxMonths)
             IN  [err |-> FALSE, spreadsheet_data |-> st.rows,
                  summary |-> Some(SummaryOf(st))]

\* The result of the call on an App holding `data` and `summ`: err tells
\* whether Err was returned, the other fields are the App's spreadsheet_data
\* and summary when the call returns.
calculate_mortgage(inp, data, summ) ==
    LET p == Resolve(inp)
    IN  IF ~p.ok
        THEN [err |-> TRUE, spreadsheet_data |-> data, summary |-> summ]
        ELSE LET st == RunMonths(p, LoopInit(p, data), 1, MaxMonths)
             IN  [err |-> FALSE, spreadsheet_data |-> st.rows,
                  summary |-> Some(SummaryOf(st))]

\* App::export_to_csv: the lines of the file it writes in full (lines
\* 360-405).  A line is kept by its kind and, for a row, the row's month.
SummaryLabels ==
    <<"Total Interest Paid", "Total Principal Paid", "Total Taxes Paid",
      "Total Insurance Paid", "Total Maintenance Paid", "Total PMI Paid",
      "Total HOA Paid", "Total Payments", "Total Cost of Capital",
      "Total Waste Cost", "Final House Value", "Final Equity",
      "Months to Payoff", "Effective Interest Rate">>

\* An exporter that leaves out the last row.
CsvLines_short(data, summ) ==
    <<[kind |-> "header", of |-> 0]>>
    \o [i \in 1..(Len(data) - 1) |-> [kind |-> "row", of |-> data[i].month]]
    \o (IF summ = None THEN <<>>
        ELSE <<[kind |-> "blank", of |-> 0], [kind |-> "section", of |-> 0]>>
             \o [i \in 1..Len(SummaryLabels) |-> [kind |-> "summary", of |-> i]])

CsvLines(data, summ) ==
    <<[kind |-> "header", of |-> 0]>>
    \o [i \in 1..Len(data) |-> [kind |-> "row", of |-> data[i].month]]
    \o (IF summ = None THEN <<>>
        ELSE <<[kind |-> "blank", of |-> 0], [kind |-> "section", of |-> 0]>>
             \o [i \in 1..Len(SummaryLabels) |-> [kind |-> "summary", of |-> i]])

----------------------------------------------------------------------------
(* The session: struct App, the process, and the files it has written.     *)

VARIABLES
    screen,            \* App.screen
    inputs,            \* App.inputs
    spreadsheet_data,  \* App.spreadsheet_data
    table_state,       \* App.table_state: its selected index, an Option
    summary,           \* App.summary, an Option
    status,            \* the process: "running", "exited" or "panicked"
    files,             \* the lines of each export file, None while absent
    stderr,            \* the last line written to stderr, None before the first
    edits,             \* Character, Backspace and Tab events handled so far
    navs,              \* cursor-moving events handled so far
    exports            \* Export events handled so far

vars == <<screen, inputs, spreadsheet_data, table_state, summary, status,
          files, stderr, edits, navs, exports>>

Screens ==
    <<"HouseValue", "DownPayment", "HOAFee", "InterestRate", "PropertyTax",
      "Insurance", "Maintenance", "PMI", "HouseAppreciation", "LoanTerm",
      "ExtraPrincipal", "Spreadsheet", "Summary">>

FileNames == {"mortgage_spreadsheet.csv", "mortgage_analysis.csv"}

\* Key events: a KeyCode (for Char, with its character) and whether the
\* CONTROL modifier is held.
Key(code, c, ctrl) == [code |-> code, c |-> c, ctrl |-> ctrl]

NamedCodes ==
    {"Enter", "Right", "Left", "Esc", "Tab", "Backspace", "Down", "Up",
     "PageDown", "PageUp"}

TypedChars ==
    {"0", "1", ".", "-", "l", "h", "q", "Q", "s", "S", "e", "E", "j", "k",
     "d", "u", "g", "G"}

Keys ==
    {Key(code, "", FALSE) : code \in NamedCodes}
    \cup {Key("Char", c, FALSE) : c \in TypedChars}
    \cup {Key(code, "", TRUE) : code \in {"PageDown", "PageUp"}}
    \cup {Key("Char", c, TRUE) : c \in {"d", "u"}}

IsChar(key, c) == key.code = "Char" /\ key.c = c

\* char::is_numeric, on the characters of TypedChars.
is_numeric(c) == c \in Digits

\* App::default (lines 109-141).
DefaultInputs ==
    [house_value |-> <<>>,
     down_payment_percent |-> <<"2", "0">>,
     down_payment_amount |-> <<>>,
     use_percent |-> TRUE,
     hoa_fee |-> <<"0">>,
     interest_rate |-> <<"6", ".", "5">>,
     property_tax_percent |-> <<"2">>,
     property_tax_amount |-> <<>>,
     use_property_tax_percent |-> TRUE,
     insurance_percent |-> <<"0", ".", "3", "5">>,
     insurance_amount |-> <<>>,
     use_insurance_percent |-> TRUE,
     maintenance_percent |-> <<"1">>,
     maintenance_amount |-> <<>>,
     use_maintenance_percent |-> TRUE,
     pmi_percent |-> <<"0", ".", "5">>,
     pmi_amount |-> <<>>,
     use_pmi_percent |-> TRUE,
     house_appreciation_rate |-> <<"3">>,
     loan_term_years |-> <<"3", "0">>,
     extra_principal_payment |-> <<"0">>]

Init ==
    /\ screen = "HouseValue"
    /\ inputs = DefaultInputs
    /\ spreadsheet_data = <<>>
    /\ table_state = [selected |-> None]
    /\ summary = None
    /\ status = "running"
    /\ files = [f \in FileNames |-> None]
    /\ stderr = None
    /\ edits = 0
    /\ navs = 0
    /\ exports = 0

----------------------------------------------------------------------------
(* What a match arm does.                                                  *)

\* Whether a counted event of the given cost still fits the session explored.
Affordable(cost) == EditCost * edits + navs + exports + cost <= MaxCost

\* `_ => {}`, and every arm that leaves the App as it is.
Ignore == UNCHANGED vars

\* app.screen = to
Goto(to) ==
    /\ screen' = to
    /\ UNCHANGED <<inputs, spreadsheet_data, table_state, summary, status,
                   files, stderr, edits, navs, exports>>

\* String::push on a field
Push(field, c) ==
    /\ Affordable(EditCost)
    /\ inputs' = [inputs EXCEPT ![field] = Append(@, c)]
    /\ edits' = edits + 1
    /\ UNCHANGED <<screen, spreadsheet_data, table_state, summary, status,
                   files, stderr, navs, exports>>

\* A Backspace arm that empties the field.
Pop_clearing(field) ==
    /\ Affordable(EditCost)
    /\ inputs' = [inputs EXCEPT ![field] = <<>>]
    /\ edits' = edits + 1
    /\ UNCHANGED <<screen, spreadsheet_data, table_state, summary, status,
                   files, stderr, navs, exports>>

\* String::pop on a field: nothing on an empty one
Pop(field) ==
    /\ Affordable(EditCost)
    /\ inputs' = [inputs EXCEPT
                    ![field] = IF Len(@) = 0 THEN @ ELSE SubSeq(@, 1, Len(@) - 1)]
    /\ edits' = edits + 1
    /\ UNCHANGED <<screen, spreadsheet_data, table_state, summary, status,
                   files, stderr, navs, exports>>

\* A Tab arm that selects the percent side whatever was selected.
toggled_to_percent(inp, selector) == [inp EXCEPT ![selector] = TRUE]

\* The inputs after app.inputs.<selector> = !app.inputs.<selector>.
toggled(inp, selector) == [inp EXCEPT ![selector] = ~@]

\* The Tab arm of a percent-or-amount handler.
Toggle(selector) ==
    /\ Affordable(EditCost)
    /\ inputs' = toggled(inputs, selector)
    /\ edits' = edits + 1
    /\ UNCHANGED <<screen, spreadsheet_data, table_state, summary, status,
                   files, stderr, navs, exports>>

\* std::process::exit(0), and run_app returning Ok(())
Exit ==
    /\ status' = "exited"
    /\ UNCHANGED <<screen, inputs, spreadsheet_data, table_state, summary,
                   files, stderr, edits, navs, exports>>

\* a panic unwinding out of run_app
Panic ==
    /\ status' = "panicked"
    /\ UNCHANGED <<screen, inputs, spreadsheet_data, table_state, summary,
                   files, stderr, edits, navs, exports>>

\* KeyCode::Enter | KeyCode::Char('l') | KeyCode::Right
IsAdvanceKey(key) == key.code \in {"Enter", "Right"} \/ IsChar(key, "l")

\* KeyCode::Esc | KeyCode::Char('h') | KeyCode::Left
IsRetreatKey(key) == key.code \in {"Esc", "Left"} \/ IsChar(key, "h")

\* The guard of the Char arm of the money and percent fields.
AcceptsMoney(c) == is_numeric(c) \/ c = "."

----------------------------------------------------------------------------
(* The input handlers (lines 468-758).                                     *)

handle_house_value_input(key) ==
    /\ status = "running" /\ screen = "HouseValue"
    /\ IF key.code = "Char" /\ AcceptsMoney(key.c) THEN Push("house_value", key.c)
       ELSE IF key.code = "Backspace" THEN Pop("house_value")
       ELSE IF IsAdvanceKey(key)
            THEN IF inputs.house_value # <<>> THEN Goto("DownPayment") ELSE Ignore
       ELSE IF key.code = "Esc" \/ IsChar(key, "q") THEN Exit
       ELSE Ignore

\* The shared body with a Retreat arm that names the following step.
DualModeInput_retreating_forward(key, selector, percent, amount, next, prev) ==
    IF key.code = "Tab" THEN Toggle(selector)
    ELSE IF key.code = "Char" /\ AcceptsMoney(key.c)
         THEN IF inputs[selector] THEN Push(percent, key.c) ELSE Push(amount, key.c)
    ELSE IF key.code = "Backspace"
         THEN IF inputs[selector] THEN Pop(percent) ELSE Pop(amount)
    ELSE IF IsAdvanceKey(key)
         THEN LET valid == IF inputs[selector] THEN inputs[percent] # <<>>
                           ELSE inputs[amount] # <<>>
              IN  IF valid THEN Goto(next) ELSE Ignore
    ELSE IF IsRetreatKey(key) THEN Goto(next)
    ELSE Ignore

\* The body shared by the five percent-or-amount handlers, which differ in
\* the fields they name.
DualModeInput(key, selector, percent, amount, next, prev) ==
    IF key.code = "Tab" THEN Toggle(selector)
    ELSE IF key.code = "Char" /\ AcceptsMoney(key.c)
         THEN IF inputs[selector] THEN Push(percent, key.c) ELSE Push(amount, key.c)
    ELSE IF key.code = "Backspace"
         THEN IF inputs[selector] THEN Pop(percent) ELSE Pop(amount)
    ELSE IF IsAdvanceKey(key)
         THEN LET valid == IF inputs[selector] THEN inputs[percent] # <<>>
                           ELSE inputs[amount] # <<>>
              IN  IF valid THEN Goto(next) ELSE Ignore
    ELSE IF IsRetreatKey(key) THEN Goto(prev)
    ELSE Ignore

handle_down_payment_input(key) ==
    /\ status = "running" /\ screen = "DownPayment"
    /\ DualModeInput(key, "use_percent", "down_payment_percent",
                     "down_payment_amount", "HOAFee", "HouseValue")

handle_hoa_input(key) ==
    /\ status = "running" /\ screen = "HOAFee"
    /\ IF key.code = "Char" /\ AcceptsMoney(key.c) THEN Push("hoa_fee", key.c)
       ELSE IF key.code = "Backspace" THEN Pop("hoa_fee")
       ELSE IF IsAdvanceKey(key) THEN Goto("InterestRate")
       ELSE IF IsRetreatKey(key) THEN Goto("DownPayment")
       ELSE Ignore

\* The handler with an Advance arm that goes two steps forward.
handle_interest_rate_input_skipping(key) ==
    /\ status = "running" /\ screen = "InterestRate"
    /\ IF key.code = "Char" /\ AcceptsMoney(key.c) THEN Push("interest_rate", key.c)
       ELSE IF key.code = "Backspace" THEN Pop("interest_rate")
       ELSE IF IsAdvanceKey(key)
            THEN IF inputs.interest_rate # <<>> THEN Goto("Insurance") ELSE Ignore
       ELSE IF IsRetreatKey(key) THEN Goto("HOAFee")
       ELSE Ignore

handle_interest_rate_input(key) ==
    /\ status = "running" /\ screen = "InterestRate"
    /\ IF key.code = "Char" /\ AcceptsMoney(key.c) THEN Push("interest_rate", key.c)
       ELSE IF key.code = "Backspace" THEN Pop("interest_rate")
       ELSE IF IsAdvanceKey(key)
            THEN IF inputs.interest_rate # <<>> THEN Goto("PropertyTax") ELSE Ignore
       ELSE IF IsRetreatKey(key) THEN Goto("HOAFee")
       ELSE Ignore

handle_property_tax_input(key) ==
    /\ status = "running" /\ screen = "PropertyTax"
    /\ DualModeInput(key, "use_property_tax_percent", "property_tax_percent",
                     "property_tax_amount", "Insurance", "InterestRate")

handle_insurance_input(key) ==
    /\ status = "running" /\ screen = "Insurance"
    /\ DualModeInput(key, "use_insurance_percent", "insurance_percent",
                     "insurance_amount", "Maintenance", "PropertyTax")

handle_maintenance_input(key) ==
    /\ status = "running" /\ screen = "Maintenance"
    /\ DualModeInput(key, "use_maintenance_percent", "maintenance_percent",
                     "maintenance_amount", "PMI", "Insurance")

handle_pmi_input(key) ==
    /\ status = "running" /\ screen = "PMI"
    /\ DualModeInput(key, "use_pmi_percent", "pmi_percent", "pmi_amount",
                     "HouseAppreciation", "Maintenance")

handle_house_appreciation_input(key) ==
    /\ status = "running" /\ screen = "HouseAppreciation"
    /\ IF key.code = "Char" /\ (AcceptsMoney(key.c) \/ key.c = "-")
       THEN Push("house_appreciation_rate", key.c)
       ELSE IF key.code = "Backspace" THEN Pop("house_appreciation_rate")
       ELSE IF IsAdvanceKey(key)
            THEN IF inputs.house_appreciation_rate # <<>> THEN Goto("LoanTerm")
                 ELSE Ignore
       ELSE IF IsRetreatKey(key) THEN Goto("PMI")
       ELSE Ignore

handle_loan_term_input(key) ==
    /\ status = "running" /\ screen = "LoanTerm"
    /\ IF key.code = "Char" /\ is_numeric(key.c) THEN Push("loan_term_years", key.c)
       ELSE IF key.code = "Backspace" THEN Pop("loan_term_years")
       ELSE IF IsAdvanceKey(key)
            THEN IF inputs.loan_term_years # <<>> THEN Goto("ExtraPrincipal")
                 ELSE Ignore
       ELSE IF IsRetreatKey(key) THEN Goto("HouseAppreciation")
       ELSE Ignore

\* The Advance arm of the last input step without its
\* table_state.select(Some(0)).
ConfirmExtraPrincipal_no_select(r) ==
    IF inputs.extra_principal_payment = <<>> THEN Ignore
    ELSE /\ UNCHANGED <<inputs, status, files, edits, navs, exports, table_state>>
         /\ spreadsheet_data' = r.spreadsheet_data
         /\ summary' = r.summary
         /\ screen' = IF r.err THEN screen ELSE "Spreadsheet"
         /\ stderr' = IF r.err THEN Some("Error calculating mortgage") ELSE stderr

\* The Advance arm of the last input step showing Spreadsheet whether or not
\* the computation succeeded.
ConfirmExtraPrincipal_showing_always(r) ==
    IF inputs.extra_principal_payment = <<>> THEN Ignore
    ELSE /\ UNCHANGED <<inputs, status, files, edits, navs, exports>>
         /\ spreadsheet_data' = r.spreadsheet_data
         /\ summary' = r.summary
         /\ screen' = "Spreadsheet"
         /\ table_state' = [selected |-> Some(0)]
         /\ stderr' = IF r.err THEN Some("Error calculating mortgage") ELSE stderr

\* Lines 744-753: the Advance arm of the last input step.  r is what
\* app.calculate_mortgage() does to the App as it is.
ConfirmExtraPrincipal(r) ==
    IF inputs.extra_principal_payment = <<>> THEN Ignore
    ELSE /\ UNCHANGED <<inputs, status, files, edits, navs, exports>>
         /\ spreadsheet_data' = r.spreadsheet_data
         /\ summary' = r.summary
         /\ screen' = IF r.err THEN screen ELSE "Spreadsheet"
         /\ table_state' = IF r.err THEN table_state ELSE [selected |-> Some(0)]
         /\ stderr' = IF r.err THEN Some("Error calculating mortgage") ELSE stderr

handle_extra_principal_input(key, r) ==
    /\ status = "running" /\ screen = "ExtraPrincipal"
    /\ IF key.code = "Char" /\ AcceptsMoney(key.c)
       THEN Push("extra_principal_payment", key.c)
       ELSE IF key.code = "Backspace" THEN Pop("extra_principal_payment")
       ELSE IF IsAdvanceKey(key) THEN ConfirmExtraPrincipal(r)
       ELSE IF IsRetreatKey(key) THEN Goto("LoanTerm")
       ELSE Ignore

----------------------------------------------------------------------------
(* The result views (lines 760-849).                                       *)

\* Option::unwrap_or(0) of the selected index
Current == IF table_state.selected = None THEN 0 ELSE table_state.selected[1]

\* A select that drops the Summary with the old cursor.
Select_dropping_summary(sel) ==
    /\ Affordable(1)
    /\ table_state' = [selected |-> sel]
    /\ summary' = None
    /\ navs' = navs + 1
    /\ UNCHANGED <<screen, inputs, spreadsheet_data, status, files, stderr,
                   edits, exports>>

\* TableState::select
Select(sel) ==
    /\ Affordable(1)
    /\ table_state' = [selected |-> sel]
    /\ navs' = navs + 1
    /\ UNCHANGED <<screen, inputs, spreadsheet_data, summary, status, files,
                   stderr, edits, exports>>

\* An arm that moves the cursor nowhere.
NoMove ==
    /\ Affordable(1)
    /\ navs' = navs + 1
    /\ UNCHANGED <<screen, inputs, spreadsheet_data, table_state, summary,
                   status, files, stderr, edits, exports>>

Min(a, b) == IF a < b THEN a ELSE b

\* Lines 783-789.  `len() - 1` on an empty list is a usize underflow: a
\* panic in a build that checks overflow, usize::MAX in one that does not.
SelectNext ==
    IF Len(spreadsheet_data) = 0
    THEN Panic \/ Select(Some(Current + 1))
    ELSE IF Current < Len(spreadsheet_data) - 1 THEN Select(Some(Current + 1))
         ELSE NoMove

\* Lines 790-796.
SelectPrevious == IF Current > 0 THEN Select(Some(Current - 1)) ELSE NoMove

\* Lines 797-802, with the same `len() - 1`.
SelectPageDown ==
    IF Len(spreadsheet_data) = 0
    THEN Panic \/ Select(Some(Current + PageStride))
    ELSE Select(Some(Min(Current + PageStride, Len(spreadsheet_data) - 1)))

\* Lines 803-808: usize::saturating_sub.
SelectPageUp ==
    Select(Some(IF Current > PageStride THEN Current - PageStride ELSE 0))

\* Lines 813-818.
SelectLast ==
    IF Len(spreadsheet_data) # 0 THEN Select(Some(Len(spreadsheet_data) - 1))
    ELSE NoMove

\* The lengths at which a failing write leaves the file.
PartialLens(lines) == {n \in {0, 1} : n < Len(lines)}

\* An export that takes the rows out of the App as it writes them.
Export_draining(filename) ==
    /\ Affordable(1)
    /\ exports' = exports + 1
    /\ LET lines == CsvLines(spreadsheet_data, summary)
       IN  \/ /\ files' = files
              /\ stderr' = Some("Error exporting to CSV")
              /\ spreadsheet_data' = spreadsheet_data
           \/ /\ files' = [files EXCEPT ![filename] = Some(lines)]
              /\ stderr' = Some("Exported to")
              /\ spreadsheet_data' = <<>>
           \/ \E n \in PartialLens(lines) :
                  /\ files' = [files EXCEPT ![filename] = Some(SubSeq(lines, 1, n))]
                  /\ stderr' = Some("Error exporting to CSV")
                  /\ spreadsheet_data' = <<>>
    /\ UNCHANGED <<screen, inputs, table_state, summary, status, edits, navs>>

\* App::export_to_csv and the match on its result: File::create fails and
\* nothing is touched, or the file is truncated and either every line is
\* written or a write fails part way.  The error is printed and dropped.
Export(filename) ==
    /\ Affordable(1)
    /\ exports' = exports + 1
    /\ LET lines == CsvLines(spreadsheet_data, summary)
       IN  \/ /\ files' = files
              /\ stderr' = Some("Error exporting to CSV")
           \/ /\ files' = [files EXCEPT ![filename] = Some(lines)]
              /\ stderr' = Some("Exported to")
           \/ \E n \in PartialLens(lines) :
                  /\ files' = [files EXCEPT ![filename] = Some(SubSeq(lines, 1, n))]
                  /\ stderr' = Some("Error exporting to CSV")
    /\ UNCHANGED <<screen, inputs, spreadsheet_data, table_state, summary,
                   status, edits, navs>>

handle_spreadsheet_input(key) ==
    /\ status = "running" /\ screen = "Spreadsheet"
    /\ IF IsChar(key, "q") \/ IsChar(key, "Q") THEN Exit
       ELSE IF key.code = "Esc" THEN Goto("ExtraPrincipal")
       ELSE IF IsChar(key, "s") \/ IsChar(key, "S") THEN Goto("Summary")
       ELSE IF IsChar(key, "e") \/ IsChar(key, "E")
            THEN Export("mortgage_spreadsheet.csv")
       ELSE IF key.code = "Down" \/ IsChar(key, "j") THEN SelectNext
       ELSE IF key.code = "Up" \/ IsChar(key, "k") THEN SelectPrevious
       ELSE IF (key.code = "PageDown" \/ IsChar(key, "d")) /\ key.ctrl
            THEN SelectPageDown
       ELSE IF (key.code = "PageUp" \/ IsChar(key, "u")) /\ key.ctrl
            THEN SelectPageUp
       ELSE IF IsChar(key, "g") THEN Select(Some(0))
       ELSE IF IsChar(key, "G") THEN SelectLast
       ELSE IF IsChar(key, "h") \/ key.code = "Left" THEN Goto("ExtraPrincipal")
       ELSE Ignore

\* The Summary handler with the Back arm of the Spreadsheet handler.
handle_summary_input_back_to_inputs(key) ==
    /\ status = "running" /\ screen = "Summary"
    /\ IF IsChar(key, "q") \/ IsChar(key, "Q") THEN Exit
       ELSE IF IsRetreatKey(key) THEN Goto("ExtraPrincipal")
       ELSE IF IsChar(key, "e") \/ IsChar(key, "E")
            THEN Export("mortgage_analysis.csv")
       ELSE Ignore

handle_summary_input(key) ==
    /\ status = "running" /\ screen = "Summary"
    /\ IF IsChar(key, "q") \/ IsChar(key, "Q") THEN Exit
       ELSE IF IsRetreatKey(key) THEN Goto("Spreadsheet")
       ELSE IF IsChar(key, "e") \/ IsChar(key, "E")
            THEN Export("mortgage_analysis.csv")
       ELSE Ignore

----------------------------------------------------------------------------
\* run_app (lines 436-466): read a key, dispatch on the screen.
Next ==
    \/ \E key \in Keys : handle_house_value_input(key)
    \/ \E key \in Keys : handle_down_payment_input(key)
    \/ \E key \in Keys : handle_hoa_input(key)
    \/ \E key \in Keys : handle_interest_rate_input(key)
    \/ \E key \in Keys : handle_property_tax_input(key)
    \/ \E key \in Keys : handle_insurance_input(key)
    \/ \E key \in Keys : handle_maintenance_input(key)
    \/ \E key \in Keys : handle_pmi_input(key)
    \/ \E key \in Keys : handle_house_appreciation_input(key)
    \/ \E key \in Keys : handle_loan_term_input(key)
    \/ LET r == calculate_mortgage(inputs, spreadsheet_data, summary)
       IN  \E key \in Keys : handle_extra_principal_input(key, r)
    \/ \E key \in Keys : handle_spreadsheet_input(key)
    \/ \E key \in Keys : handle_summary_input(key)

Spec == Init /\ [][Next]_vars

----------------------------------------------------------------------------
(* The wizard's steps.                                                     *)

\* The input steps in their forward order: Screens without the two views.
InputScreens == SubSeq(Screens, 1, 11)

\* The position of a screen in Screens.
StepIndex(sc) == CHOOSE i \in 1..Len(Screens) : Screens[i] = sc

OnInputStep == StepIndex(screen) <= Len(InputScreens)

\* The text the current input step validates on Advance in the spec's
\* reading: the step's field, or the side of a dual field its selector names.
ActiveField ==
    LET dual(selector, percent, amount) ==
            IF inputs[selector] THEN inputs[percent] ELSE inputs[amount]
    IN  CASE screen = "HouseValue" -> inputs.house_value
          [] screen = "DownPayment" ->
                 dual("use_percent", "down_payment_percent", "down_payment_amount")
          [] screen = "HOAFee" -> inputs.hoa_fee
          [] screen = "InterestRate" -> inputs.interest_rate
          [] screen = "PropertyTax" ->
                 dual("use_property_tax_percent", "property_tax_percent",
                      "property_tax_amount")
          [] screen = "Insurance" ->
                 dual("use_insurance_percent", "insurance_percent",
                      "insurance_amount")
          [] screen = "Maintenance" ->
                 dual("use_maintenance_percent", "maintenance_percent",
                      "maintenance_amount")
          [] screen = "PMI" -> dual("use_pmi_percent", "pmi_percent", "pmi_amount")
          [] screen = "HouseAppreciation" -> inputs.house_appreciation_rate
          [] screen = "LoanTerm" -> inputs.loan_term_years
          [] screen = "ExtraPrincipal" -> inputs.extra_principal_payment
          [] OTHER -> <<>>

\* The step taken when the key arrives on one of the ten input steps before
\* ExtraPrincipal.
EarlierInputStep(key) ==
    \/ handle_house_value_input(key)
    \/ handle_down_payment_input(key)
    \/ handle_hoa_input(key)
    \/ handle_interest_rate_input(key)
    \/ handle_property_tax_input(key)
    \/ handle_insurance_input(key)
    \/ handle_maintenance_input(key)
    \/ handle_pmi_input(key)
    \/ handle_house_appreciation_input(key)
    \/ handle_loan_term_input(key)

\* The step taken when the key arrives on ExtraPrincipal.
LastInputStep(key) ==
    handle_extra_principal_input(
        key, calculate_mortgage(inputs, spreadsheet_data, summary))

\* An Advance key is handled on an input step.
AdvanceTaken ==
    \E key \in Keys :
        IsAdvanceKey(key) /\ (EarlierInputStep(key) \/ LastInputStep(key))

\* C1: on every input step, Advance while the active field is empty leaves
\* the current step unchanged.
C1_AdvanceOnEmptyStays ==
    [][(OnInputStep /\ ActiveField = <<>> /\ AdvanceTaken) => screen' = screen]_vars

\* C2: Advance on an input step with a non-empty active field moves to
\* exactly the next step of the fixed order, and Spreadsheet is entered only
\* from ExtraPrincipal by a computation that succeeds or from Summary.
C2_AdvanceFollowsOrder ==
    [][/\ \A key \in Keys :
              (IsAdvanceKey(key) /\ ActiveField # <<>> /\ EarlierInputStep(key))
                  => screen' = Screens[StepIndex(screen) + 1]
       /\ (screen # "Spreadsheet" /\ screen' = "Spreadsheet")
              => \/ /\ screen = "ExtraPrincipal"
                    /\ inputs.extra_principal_payment # <<>>
                    /\ Resolve(inputs).ok
                 \/ screen = "Summary"]_vars

\* Every input step has been advanced through and the computation has run:
\* Spreadsheet with the rows of the first confirmation.
C2_WizardCompleted ==
    /\ screen = "Spreadsheet"
    /\ summary # None
    /\ stderr = None
    /\ navs = 0 /\ exports = 0

\* The step is a confirmation: an Advance key handled on ExtraPrincipal with
\* a non-empty field.  The leading conjuncts only spare computing the engine
\* for steps that edit, go back or change nothing.
ConfirmTaken ==
    /\ screen = "ExtraPrincipal"
    /\ inputs.extra_principal_payment # <<>>
    /\ inputs' = inputs
    /\ screen' # "LoanTerm"
    /\ vars' # vars
    /\ \E key \in Keys : IsAdvanceKey(key) /\ LastInputStep(key)

C4_SuccessSelectsFirstRow ==
    [][(Resolve(inputs).ok /\ ConfirmTaken)
           => /\ screen' = "Spreadsheet"
              /\ table_state'.selected = Some(0)]_vars

\* A confirmation has succeeded, on inputs edited twice: Spreadsheet is
\* shown with rows, row 0 selected and the cursor never moved since.
C4_ConfirmedOnFirstRow ==
    /\ screen = "Spreadsheet"
    /\ table_state.selected = Some(0)
    /\ spreadsheet_data # <<>>
    /\ edits = 2
    /\ navs = 0

----------------------------------------------------------------------------
(* The result views and the engine's rows.                                 *)

OnResultView == screen \in {"Spreadsheet", "Summary"}

\* C5: after a list-navigation action on Spreadsheet the selected row index
\* is within [0, row_count - 1], whatever rows the engine produced.
C5_CursorWithinRows ==
    [][(screen = "Spreadsheet" /\ navs' = navs + 1)
           => /\ table_state'.selected # None
              /\ table_state'.selected[1] \in 0..(Len(spreadsheet_data') - 1)]_vars

\* C6: no sequence of actions aborts the process; it ends only by the
\* explicit Cancel or Quit.
C6_NeverAborts == status # "panicked"

StartBalance(data, loan_amount, i) == IF i = 1 THEN loan_amount ELSE data[i - 1].debt

\* C8: in every row, principal plus extra principal does not exceed the
\* balance at the start of the month, and the remaining debt is not negative.
C8_NeverOverpaid ==
    OnResultView =>
        \A i \in 1..Len(spreadsheet_data) :
            /\ Le(Add(spreadsheet_data[i].principal, spreadsheet_data[i].extra_principal),
                  StartBalance(spreadsheet_data, Resolve(inputs).loan_amount, i))
            /\ ~Lt(spreadsheet_data[i].debt, 0)

\* The parameter sets C9 calls valid: a positive house value, a positive
\* whole number of years, no negative rate.
ValidParameters ==
    LET p == Resolve(inputs)
    IN  /\ p.ok
        /\ Gt(p.house_value, 0)
        /\ p.num_payments > 0
        /\ Le(0, p.monthly_appreciation_rate)

\* C9: for valid parameters the remaining debt never increases from row to
\* row and the last row's is <= 0, within 360 rows.
C9_DebtReachesZero ==
    (OnResultView /\ ValidParameters) =>
        /\ Len(spreadsheet_data) <= MaxMonths
        /\ \A i \in 2..Len(spreadsheet_data) :
               Le(spreadsheet_data[i].debt, spreadsheet_data[i - 1].debt)
        /\ spreadsheet_data # <<>> =>
               Le(spreadsheet_data[Len(spreadsheet_data)].debt, 0)

\* C10: the rows' months are 1, 2, ..., n in list order with n <= 360, and
\* the Summary's months_to_payoff is n.
C10_MonthsCountRows ==
    /\ Len(spreadsheet_data) <= MaxMonths
    /\ \A i \in 1..Len(spreadsheet_data) : spreadsheet_data[i].month = i
    /\ summary # None => summary[1].months_to_payoff = Len(spreadsheet_data)

\* The engine has produced a list that ends before the 360th month.
C10_PaidOffEarly ==
    /\ summary # None
    /\ Len(spreadsheet_data) \in 2..(MaxMonths - 1)
    /\ summary[1].months_to_payoff = Len(spreadsheet_data)

----------------------------------------------------------------------------
(* The engine on its own: the wizard stands on ExtraPrincipal with fields   *)
(* the input steps can leave behind, and is confirmed.                      *)

\* A thirty-year loan at 6% on a house of 300 with 20% down and every other
\* cost typed as 0.  Amounts are in thousands of dollars: with the costs at 0
\* every figure of the engine is proportional to the house value, and the
\* numbers carried here stop at MaxNum.
ScenarioInputs ==
    [DefaultInputs EXCEPT
         !.house_value = <<"3", "0", "0">>,
         !.interest_rate = <<"6">>,
         !.property_tax_percent = <<"0">>,
         !.insurance_percent = <<"0">>,
         !.maintenance_percent = <<"0">>,
         !.pmi_percent = <<"0">>,
         !.house_appreciation_rate = <<"0">>]

\* The same loan over forty years: its balance is not paid off when the
\* schedule stops at MaxMonths.
LongTermInputs == [ScenarioInputs EXCEPT !.loan_term_years = <<"4", "0">>]

\* Parameter sets typed on the input steps: both sides of the down payment,
\* property tax and PMI filled or left empty, each selector either way, with
\* and without interest and extra principal, over a one-year term; and the
\* thirty-year scenario and its forty-year variant.
EngineInputs ==
    {ScenarioInputs, LongTermInputs} \cup
    {[DefaultInputs EXCEPT
          !.house_value = hv,
          !.use_percent = up,
          !.down_payment_percent = dpp,
          !.down_payment_amount = dpa,
          !.interest_rate = ir,
          !.use_property_tax_percent = ut,
          !.property_tax_amount = <<"1">>,
          !.use_pmi_percent = upm,
          !.pmi_percent = pp,
          !.pmi_amount = pa,
          !.loan_term_years = <<"1">>,
          !.extra_principal_payment = ex] :
        hv \in {<<"1">>, <<"1", "0">>},
        up \in BOOLEAN,
        dpp \in {<<"2", "0">>, <<"1", "0">>},
        dpa \in {<<>>, <<"2">>},
        ir \in {<<"6", ".", "5">>, <<"0">>},
        ut \in BOOLEAN,
        upm \in BOOLEAN,
        pp \in {<<"0", ".", "5">>, <<>>},
        pa \in {<<>>, <<"1">>, <<".">>},
        ex \in {<<"0">>, <<"0", ".", "1">>}}

EngineInit ==
    /\ screen = "ExtraPrincipal"
    /\ inputs \in EngineInputs
    /\ spreadsheet_data = <<>>
    /\ table_state = [selected |-> None]
    /\ summary = None
    /\ status = "running"
    /\ files = [f \in FileNames |-> None]
    /\ stderr = None
    /\ edits = 0
    /\ navs = 0
    /\ exports = 0

\* An Advance key arrives on ExtraPrincipal.
EngineConfirm ==
    LET r == calculate_mortgage(inputs, spreadsheet_data, summary)
    IN  \E key \in {k \in Keys : IsAdvanceKey(k)} :
            handle_extra_principal_input(key, r)

\* Esc, 'h' or Left arrives on Spreadsheet: back to ExtraPrincipal with the
\* rows held, from where the confirmation can be repeated.
EngineBack == \E key \in {k \in Keys : IsRetreatKey(k)} : handle_spreadsheet_input(key)

EngineNext == EngineConfirm \/ EngineBack

EngineSpec == EngineInit /\ [][EngineNext]_vars

\* The sum of principal + extra_principal over rows lo..hi of the list.
RECURSIVE PrincipalPaid(_, _, _)
PrincipalPaid(data, lo, hi) ==
    IF lo > hi THEN 0
    ELSE IF lo = hi THEN Add(data[lo].principal, data[lo].extra_principal)
    ELSE LET mid == (lo + hi) \div 2
         IN  Add(PrincipalPaid(data, lo, mid), PrincipalPaid(data, mid + 1, hi))

\* C11: the sum over all rows of principal + extra_principal equals the
\* original loan amount minus the last row's remaining debt.
C11_PrincipalAccountsForDebt ==
    (OnResultView /\ spreadsheet_data # <<>>) =>
        PrincipalPaid(spreadsheet_data, 1, Len(spreadsheet_data))
            = Sub(Resolve(inputs).loan_amount,
                  spreadsheet_data[Len(spreadsheet_data)].debt)

\* A loan with extra principal has been paid down over several rows.
C11_PaidDownWithExtra ==
    /\ screen = "Spreadsheet"
    /\ Len(spreadsheet_data) > 2
    /\ Gt(spreadsheet_data[1].extra_principal, 0)
    /\ Gt(spreadsheet_data[1].principal, 0)
    /\ Gt(Resolve(inputs).loan_amount, 0)

\* The down payment as a fraction of the house value (line 158) for the
\* inputs as they are, read without the PMI fields: NaN when a field the
\* fraction or the rest of the computation needs does not parse.
DownPaymentFraction ==
    LET p == Resolve([inputs EXCEPT !.use_pmi_percent = TRUE,
                                    !.pmi_percent = <<"0">>])
    IN  IF p.ok THEN p.down_payment_percent ELSE NaN

\* The selected PMI field holds no number.
PmiFieldUnparsable ==
    ~ParseOk(IF inputs.use_pmi_percent THEN inputs.pmi_percent ELSE inputs.pmi_amount)

\* C12: when the down payment is at least 0.20 of the house value, a
\* confirmation succeeds whatever the PMI selector and texts are, every row's
\* pmi is 0 and the Summary's total PMI is 0.
C12_NoPmiFromTwentyPercent ==
    [][(Le(DivLit(Lit(1), 5), DownPaymentFraction) /\ ConfirmTaken)
           => /\ screen' = "Spreadsheet"
              /\ \A i \in 1..Len(spreadsheet_data') : spreadsheet_data'[i].pmi = 0
              /\ summary' # None
              /\ summary'[1].total_pmi_paid = 0]_vars

\* A confirmation at a down payment of exactly 20 % has produced rows although
\* the selected PMI field holds no number.
C12_ConfirmedWithoutPmiText ==
    /\ screen = "Spreadsheet"
    /\ spreadsheet_data # <<>>
    /\ PmiFieldUnparsable
    /\ DownPaymentFraction = DivLit(Lit(1), 5)

\* The five rate-or-amount categories: the selector and the two texts of
\* each, as MortgageInputs names them.
DualFields ==
    <<[selector |-> "use_percent", percent |-> "down_payment_percent",
       amount |-> "down_payment_amount"],
      [selector |-> "use_property_tax_percent", percent |-> "property_tax_percent",
       amount |-> "property_tax_amount"],
      [selector |-> "use_insurance_percent", percent |-> "insurance_percent",
       amount |-> "insurance_amount"],
      [selector |-> "use_maintenance_percent", percent |-> "maintenance_percent",
       amount |-> "maintenance_amount"],
      [selector |-> "use_pmi_percent", percent |-> "pmi_percent",
       amount |-> "pmi_amount"]>>

\* The field of category i the selector does not name.
InactiveField(inp, i) ==
    IF inp[DualFields[i].selector] THEN DualFields[i].amount ELSE DualFields[i].percent

\* Texts for an inactive field: one that is no number, one that is another
\* number.
InactiveTexts == {<<".">>, <<"9">>}

\* Inputs that differ from inp in inactive texts only: one category's, or
\* all five at once.
InactiveVariants(inp) ==
    {[inp EXCEPT ![InactiveField(inp, i)] = t] :
         i \in DOMAIN DualFields, t \in InactiveTexts}
    \cup {[inp EXCEPT ![InactiveField(inp, 1)] = t, ![InactiveField(inp, 2)] = t,
                      ![InactiveField(inp, 3)] = t, ![InactiveField(inp, 4)] = t,
                      ![InactiveField(inp, 5)] = t] : t \in InactiveTexts}

\* C13: the engine never reads the inactive text of a rate-or-amount
\* category: on inputs that differ only in inactive texts it fails or succeeds
\* alike and leaves the same rows and the same Summary.
C13_InactiveTextsUnread ==
    screen = "ExtraPrincipal" =>
        LET outcome == calculate_mortgage(inputs, spreadsheet_data, summary)
        IN  \A other \in InactiveVariants(inputs) :
                calculate_mortgage(other, spreadsheet_data, summary) = outcome

\* The engine has succeeded, with rows, on inputs whose inactive down-payment
\* text is empty and whose inactive PMI text is no number, and the wizard is
\* back on ExtraPrincipal.
C13_RanBesideUnreadTexts ==
    /\ screen = "ExtraPrincipal"
    /\ spreadsheet_data # <<>>
    /\ stderr = None
    /\ inputs[InactiveField(inputs, 1)] = <<>>
    /\ ~ParseOk(inputs[InactiveField(inputs, 5)])
    /\ pmi_applies(Resolve(inputs).down_payment_percent)

----------------------------------------------------------------------------
(* The wizard's keys.                                                      *)

\* The steps of the five rate-or-amount categories, in the order of
\* DualFields.
DualScreens == <<"DownPayment", "PropertyTax", "Insurance", "Maintenance", "PMI">>

\* The step is the handling of one of the given keys on an input step.  The
\* screen tests only spare computing the engine away from ExtraPrincipal.
InputKeyTaken(keys) ==
    \E key \in keys :
        \/ screen # "ExtraPrincipal" /\ EarlierInputStep(key)
        \/ screen = "ExtraPrincipal" /\ LastInputStep(key)

\* KeyCode::Tab
ToggleKeys == {key \in Keys : key.code = "Tab"}

CancelKeys == {key \in Keys : IsChar(key, "q")}

\* The keys of the Retreat arms.
RetreatKeys == {key \in Keys : IsRetreatKey(key)}

\* C15: Cancel terminates the process from every input step: on each of
\* them a Cancel key can be handled, and handling it ends the process.
C15_CancelExitsFromEveryStep ==
    (status = "running" /\ OnInputStep)
        => ENABLED (InputKeyTaken(CancelKeys) /\ status' = "exited")

\* C16: Retreat on an input step other than HouseValue moves to the
\* immediately preceding step, whatever the step's active field holds, and
\* changes no text, no selector and nothing else.
C16_RetreatGoesOneStepBack ==
    [][(OnInputStep /\ screen # "HouseValue" /\ InputKeyTaken(RetreatKeys))
           => /\ screen' = Screens[StepIndex(screen) - 1]
              /\ UNCHANGED <<inputs, spreadsheet_data, table_state, summary,
                             status, files, stderr>>]_vars

\* Retreat has acted on HOAFee while its field was empty: the field is
\* erased only on HOAFee, and the wizard stands on the step before it.
C16_RetreatedFromEmptyStep ==
    /\ screen = "DownPayment"
    /\ inputs.hoa_fee = <<>>
    /\ status = "running"

\* C17: on HouseValue, every key that is Retreat on the other input steps
\* terminates the process.
C17_RetreatExitsOnFirstStep ==
    (status = "running" /\ screen = "HouseValue")
        => \A key \in Keys :
               IsRetreatKey(key)
                   => ENABLED (handle_house_value_input(key) /\ status' = "exited")

\* KeyCode::Char('q') | KeyCode::Char('Q')
IsQuitKey(key) == IsChar(key, "q") \/ IsChar(key, "Q")

\* KeyCode::Char('s') | KeyCode::Char('S')
IsShowSummaryKey(key) == IsChar(key, "s") \/ IsChar(key, "S")

\* C18: on Spreadsheet, ShowSummary moves to Summary, Back to ExtraPrincipal
\* and Quit ends the process; on Summary, Back moves to Spreadsheet and Quit
\* ends the process, and no key leads anywhere but Spreadsheet.  ShowSummary
\* and every key on Summary leave the rows, the Summary values, the cursor
\* and the inputs as they were.
C18_ResultViewTransitions ==
    [][\A key \in Keys :
           /\ handle_spreadsheet_input(key) =>
                  /\ IsShowSummaryKey(key) =>
                         /\ screen' = "Summary"
                         /\ UNCHANGED <<inputs, spreadsheet_data, table_state,
                                        summary, status>>
                  /\ IsRetreatKey(key) =>
                         screen' = "ExtraPrincipal" /\ status' = "running"
                  /\ IsQuitKey(key) => status' = "exited"
           /\ handle_summary_input(key) =>
                  /\ IsRetreatKey(key) =>
                         screen' = "Spreadsheet" /\ status' = "running"
                  /\ IsQuitKey(key) => status' = "exited"
                  /\ screen' \in {"Summary", "Spreadsheet"}
                  /\ UNCHANGED <<inputs, spreadsheet_data, table_state, summary>>]_vars

\* The wizard is back on Spreadsheet from Summary, where alone the analysis
\* file is written, with the rows, the Summary and a cursor moved off row 0.
C18_BackFromSummary ==
    /\ screen = "Spreadsheet"
    /\ files["mortgage_analysis.csv"] # None
    /\ spreadsheet_data # <<>>
    /\ summary # None
    /\ table_state.selected = Some(1)

\* KeyCode::Char('e') | KeyCode::Char('E')
IsExportKey(key) == IsChar(key, "e") \/ IsChar(key, "E")

\* The step is the handling of an Export key on Spreadsheet or Summary.
ExportTaken ==
    \E key \in Keys :
        IsExportKey(key) /\ (handle_spreadsheet_input(key) \/ handle_summary_input(key))

\* C19: an Export on Spreadsheet or Summary, whether it writes the file or
\* fails, leaves the step, the cursor, the inputs, the rows and the Summary
\* as they were; and no other step runs the exporter: only an Export writes
\* a file or counts as an export.
C19_ExportLeavesWizardState ==
    [][/\ ExportTaken =>
              UNCHANGED <<screen, table_state, inputs, spreadsheet_data, summary,
                          status>>
       /\ (files' # files \/ exports' # exports) => (OnResultView /\ ExportTaken)]_vars

\* One Export has written the whole spreadsheet file and a later one failed
\* without touching it; the rows and the cursor of the confirmation are held.
C19_ExportedThenFailed ==
    /\ screen = "Spreadsheet"
    /\ exports = 2
    /\ spreadsheet_data # <<>>
    /\ files["mortgage_spreadsheet.csv"] = Some(CsvLines(spreadsheet_data, summary))
    /\ stderr = Some("Error exporting to CSV")
    /\ table_state.selected = Some(0)

\* The keys of the six list-navigation arms (lines 783-818).
IsNavigationKey(key) ==
    \/ key.code \in {"Down", "Up"}
    \/ \E c \in {"j", "k", "g", "G"} : IsChar(key, c)
    \/ (key.code \in {"PageDown", "PageUp"} \/ IsChar(key, "d") \/ IsChar(key, "u"))
           /\ key.ctrl

\* C20: a list-navigation key handled on Spreadsheet leaves the input texts,
\* the selectors, the rows, the Summary and the current step as they were.
C20_NavigationMovesCursorOnly ==
    [][(\E key \in Keys : IsNavigationKey(key) /\ handle_spreadsheet_input(key))
           => UNCHANGED <<inputs, spreadsheet_data, summary, screen>>]_vars

\* The cursor has been paged forward by the stride over a full list: twice
\* from row 0, with the rows and the Summary of the confirmation held.
C20_PagedForward ==
    /\ screen = "Spreadsheet"
    /\ navs = 2
    /\ table_state.selected = Some(2 * PageStride)
    /\ Len(spreadsheet_data) = MaxMonths
    /\ summary # None

----------------------------------------------------------------------------
(* The engine's figures.                                                   *)

\* The engine's values for the inputs as they are.
Resolved == Resolve(inputs)

\* C21: with an annual interest rate of 0 the fixed monthly payment is the
\* loan amount divided by the number of monthly payments, within two units of
\* the last digit carried (the directed rounding of the quotient), every
\* row's interest is 0 and so is the Summary's total interest.
C21_ZeroInterestIsStraightLine ==
    (OnResultView /\ Resolved.annual_interest_rate = 0 /\ Resolved.num_payments > 0)
        => /\ Abs(Resolved.monthly_payment * Resolved.num_payments
                      - Resolved.loan_amount) <= 2 * Resolved.num_payments
           /\ \A i \in 1..Len(spreadsheet_data) : spreadsheet_data[i].interest = 0
           /\ summary[1].total_interest_paid = 0

\* An interest-free loan has been computed and is paid down month by month:
\* the first row's principal is the straight-line payment.
C21_InterestFreeSchedule ==
    /\ screen = "Spreadsheet"
    /\ Resolved.annual_interest_rate = 0
    /\ Len(spreadsheet_data) = Resolved.num_payments
    /\ spreadsheet_data[1].principal = Resolved.monthly_payment
    /\ Gt(spreadsheet_data[1].principal, 0)

\* The Summary of the loan that differs from the inputs in one thing, an
\* extra principal payment of 0.
ZeroExtraSummary ==
    calculate_mortgage([inputs EXCEPT !.extra_principal_payment = <<"0">>],
                       <<>>, None).summary[1]

\* The rows shown belong to a loan with an extra principal payment > 0.
ExtraPaid == OnResultView /\ Gt(Resolved.extra_principal, 0)

\* C22 as stated: the loan with the extra payment has strictly fewer
\* months_to_payoff and strictly less total_interest_paid than the same loan
\* without it.
C22_ExtraStrictlyReduces ==
    ExtraPaid
        => /\ summary[1].months_to_payoff < ZeroExtraSummary.months_to_payoff
           /\ Lt(summary[1].total_interest_paid, ZeroExtraSummary.total_interest_paid)

\* C22 as amended: the loan with the extra payment has no more
\* months_to_payoff and no more total_interest_paid than the same loan
\* without it.
C22_ExtraNeverIncreases ==
    ExtraPaid
        => /\ summary[1].months_to_payoff <= ZeroExtraSummary.months_to_payoff
           /\ Le(summary[1].total_interest_paid, ZeroExtraSummary.total_interest_paid)

\* A loan at interest is shown whose extra payment has shortened it and
\* lowered its total interest.
C22_PaidOffSooner ==
    /\ ExtraPaid
    /\ summary[1].months_to_payoff < ZeroExtraSummary.months_to_payoff
    /\ Lt(summary[1].total_interest_paid, ZeroExtraSummary.total_interest_paid)

\* C23: the engine's row list is empty exactly when the loan amount is <= 0,
\* and then the computation has still succeeded, with a Summary whose
\* months_to_payoff and effective_interest_rate are 0.
C23_NoRowsIffNoLoan ==
    OnResultView
        => /\ (spreadsheet_data = <<>>) <=> Le(Resolved.loan_amount, 0)
           /\ spreadsheet_data = <<>>
                  => /\ summary # None
                     /\ summary[1].months_to_payoff = 0
                     /\ summary[1].effective_interest_rate = 0

\* A house value of 0 has been confirmed: the loan amount is exactly 0 and
\* Spreadsheet shows no row.
C23_NothingBorrowed ==
    /\ screen = "Spreadsheet"
    /\ spreadsheet_data = <<>>
    /\ Resolved.loan_amount = 0
    /\ summary # None

\* C24: what a successful confirmation leaves depends on the input texts and
\* selectors alone: whatever rows, Summary and cursor were held, the rows and
\* the Summary it leaves are those of the same inputs confirmed with nothing
\* held, so two confirmations of the same inputs leave the same.
C24_OutcomeDependsOnInputsOnly ==
    [][(ConfirmTaken /\ Resolved.ok)
           => LET first == calculate_mortgage(inputs, <<>>, None)
              IN  /\ spreadsheet_data' = first.spreadsheet_data
                  /\ summary' = first.summary]_vars

\* ExtraPrincipal is shown again with the rows and the Summary of a
\* computation and a cursor moved off its first row, and the inputs can be
\* confirmed once more.
C24_AboutToConfirmAgain ==
    /\ screen = "ExtraPrincipal"
    /\ spreadsheet_data # <<>>
    /\ summary # None
    /\ table_state.selected = Some(1)
    /\ Resolved.ok

\* The figures of the thirty-year scenario, in thousands of dollars.  The
\* arithmetic carried here keeps six decimals and loses up to a tenth of a
\* dollar on the payment and sixty dollars on the interest of 360 months.
ScenarioShown == OnResultView /\ inputs = ScenarioInputs

PaymentSlack == DivLit(Lit(1), 10000)

InterestSlack == DivLit(Lit(6), 100)

Near(x, figure, slack) == Abs(x - ParseVal(figure)) <= slack

ExportFile ==
    IF screen = "Spreadsheet" THEN "mortgage_spreadsheet.csv"
    ELSE "mortgage_analysis.csv"

\* The step is an Export whose exporter returned Ok (lines 774 and 838).
ExportSucceeded == ExportTaken /\ stderr' = Some("Exported to")

\* C26: a file exported without error holds one header line, then one line
\* for each row held in memory, in the rows' order with rising months, then,
\* exactly when a Summary is held, a blank line, a section header and the 14
\* lines of the Summary's fields; it has as many row lines as there are rows.
C26_ExportedFileLayout ==
    [][ExportSucceeded
           => /\ files'[ExportFile] # None
              /\ LET lines == files'[ExportFile][1]
                     n == Len(spreadsheet_data)
                     rest == IF summary = None THEN 0 ELSE 16
                 IN  /\ Len(lines) = 1 + n + rest
                     /\ lines[1].kind = "header"
                     /\ \A i \in 1..n :
                            /\ lines[1 + i].kind = "row"
                            /\ lines[1 + i].of = spreadsheet_data[i].month
                            /\ i < n => lines[1 + i].of < lines[2 + i].of
                     /\ Cardinality({i \in 1..Len(lines) : lines[i].kind = "row"}) = n
                     /\ summary # None
                            => /\ lines[n + 2].kind = "blank"
                               /\ lines[n + 3].kind = "section"
                               /\ \A j \in 1..14 :
                                      lines[n + 3 + j] = [kind |-> "summary", of |-> j]]_vars

\* The rows of a computation and its Summary have been exported to the
\* analysis file without error.
C26_WholeAnalysisExported ==
    /\ screen = "Summary"
    /\ stderr = Some("Exported to")
    /\ spreadsheet_data # <<>>
    /\ summary # None
    /\ files["mortgage_analysis.csv"] # None
    /\ Len(files["mortgage_analysis.csv"][1]) = Len(spreadsheet_data) + 17

\* remaining_balance as the month of the shown row i starts.
BalanceBefore(i) == StartBalance(spreadsheet_data, Resolved.loan_amount, i)

\* The rows shown are those of a loan whose down payment, as a fraction of
\* the house value, is below 0.20 (lines 158 and 200).
ShownBelowThreshold ==
    OnResultView /\ Lt(Resolved.down_payment_percent, PmiThreshold)

\* C27: on a loan whose down payment is below 20 %, a month that starts with
\* a balance of at most 80 % of the original house value is charged no PMI.
C27_NoPmiOnceBalanceAtEightyPercent ==
    ShownBelowThreshold
        => \A i \in 1..Len(spreadsheet_data) :
               Le(BalanceBefore(i), Mul(Resolved.house_value, DivLit(Lit(4), 5)))
                   => spreadsheet_data[i].pmi = 0

\* C28: on a loan whose down payment is below 20 %, every row is charged
\* PMI: a twelfth of the balance the month starts with times the PMI percent
\* when the percent is selected, the monthly PMI amount when the amount is;
\* the balance reached makes no difference.
C28_PmiChargedEveryMonth ==
    ShownBelowThreshold
        => \A i \in 1..Len(spreadsheet_data) :
               /\ Gt(BalanceBefore(i), 0)
               /\ spreadsheet_data[i].pmi =
                      IF inputs.use_pmi_percent
                      THEN DivLit(Mul(BalanceBefore(i),
                                      DivLit(ParseVal(inputs.pmi_percent), 100)), 12)
                      ELSE ParseVal(inputs.pmi_amount)

\* A loan with 10 % down is shown whose balance has fallen under 80 % of the
\* house value and whose rows are still charged PMI, by percent or by amount.
C28_PmiBelowEightyPercent ==
    /\ ShownBelowThreshold
    /\ Len(spreadsheet_data) = 12
    /\ Lt(BalanceBefore(12), Mul(Resolved.house_value, DivLit(Lit(4), 5)))
    /\ Gt(spreadsheet_data[12].pmi, 0)
    /\ Gt(spreadsheet_data[1].pmi, spreadsheet_data[12].pmi)

\* remaining_balance when the loop has ended: the debt of the last row, or
\* the loan amount when no month was emitted (lines 226 and 291).
FinalBalance ==
    IF spreadsheet_data = <<>> THEN Resolved.loan_amount
    ELSE spreadsheet_data[Len(spreadsheet_data)].debt

\* C29: the Summary's final_equity is its final_house_value less the loan
\* balance left when the simulation ends, paid off or not.
C29_FinalEquityNetOfDebt ==
    OnResultView
        => summary[1].final_equity = Sub(summary[1].final_house_value, FinalBalance)

\* The cost of capital of the shown row i is a twelfth of the annual rate on
\* its equity (line 282).
CostOfCapitalOnEquity(i) ==
    spreadsheet_data[i].cost_of_capital =
        DivLit(Mul(spreadsheet_data[i].equity, Resolved.annual_interest_rate), 12)

\* C30 as stated: every row's equity is its house value less its own
\* remaining debt, and its cost of capital is that equity times the annual
\* rate over 12.
C30_EquityNetOfRowDebt ==
    OnResultView
        => \A i \in 1..Len(spreadsheet_data) :
               /\ spreadsheet_data[i].equity =
                      Sub(spreadsheet_data[i].house_cost, spreadsheet_data[i].debt)
               /\ CostOfCapitalOnEquity(i)

\* C30: every row's equity is its house value less the balance its month
\* started with (the loan amount, then the debt of the row before), and its
\* cost of capital is that equity times the annual rate over 12.
C30_EquityNetOfStartingBalance ==
    OnResultView
        => \A i \in 1..Len(spreadsheet_data) :
               /\ spreadsheet_data[i].equity =
                      Sub(spreadsheet_data[i].house_cost, BalanceBefore(i))
               /\ CostOfCapitalOnEquity(i)

\* A loan at interest is shown whose last row pays principal: its equity is
\* short of the house value though its debt is 0, and capital is charged.
C30_LastRowStillOwes ==
    /\ OnResultView
    /\ Len(spreadsheet_data) = 12
    /\ spreadsheet_data[12].debt = 0
    /\ Gt(spreadsheet_data[12].principal, 0)
    /\ Lt(spreadsheet_data[12].equity, spreadsheet_data[12].house_cost)
    /\ Gt(spreadsheet_data[12].cost_of_capital, 0)

----------------------------------------------------------------------------
(* The rows and the Summary against each other.                             *)

\* The sum of a row field over rows lo..hi of the shown list.
RECURSIVE FieldSum(_, _, _)
FieldSum(field, lo, hi) ==
    IF lo > hi THEN 0
    ELSE IF lo = hi THEN spreadsheet_data[lo][field]
    ELSE LET mid == (lo + hi) \div 2
         IN  Add(FieldSum(field, lo, mid), FieldSum(field, mid + 1, hi))

\* Each total of the Summary with the row field it accumulates (lines
\* 293-303 and 337-346).
TotalledFields ==
    {<<"total_interest_paid", "interest">>, <<"total_taxes_paid", "taxes">>,
     <<"total_insurance_paid", "insurance">>,
     <<"total_maintenance_paid", "repair_costs">>, <<"total_pmi_paid", "pmi">>,
     <<"total_hoa_paid", "hoa">>, <<"total_payments", "actual_payment">>,
     <<"total_cost_of_capital", "cost_of_capital">>,
     <<"total_waste_cost", "waste_cost">>}

\* C31: every total of the Summary is the sum of its row field over all the
\* rows, total_principal_paid is the sum of principal + extra_principal, and
\* final_house_value is the house value of the last row.
C31_TotalsAreRowSums ==
    OnResultView
        => LET n == Len(spreadsheet_data)
           IN  /\ \A t \in TotalledFields : summary[1][t[1]] = FieldSum(t[2], 1, n)
               /\ summary[1].total_principal_paid = PrincipalPaid(spreadsheet_data, 1, n)
               /\ n > 0 => summary[1].final_house_value = spreadsheet_data[n].house_cost

\* A one-year schedule is shown whose interest, taxes, insurance, maintenance
\* and PMI are all charged and whose house value has grown.
C31_FullScheduleTotalled ==
    /\ OnResultView
    /\ Len(spreadsheet_data) = 12
    /\ \A f \in {"interest", "taxes", "insurance", "repair_costs", "pmi"} :
           Gt(spreadsheet_data[12][f], 0)
    /\ summary[1].total_taxes_paid # summary[1].total_insurance_paid
    /\ Gt(summary[1].final_house_value, Resolved.house_value)

\* C32: every row's actual_payment is interest + principal + extra_principal
\* + repair_costs + hoa + taxes + insurance + pmi, and its cost is its
\* waste_cost: interest + repair_costs + hoa + taxes + insurance + pmi +
\* cost_of_capital.
C32_RowPaymentAndCost ==
    OnResultView
        => \A i \in 1..Len(spreadsheet_data) :
               LET row == spreadsheet_data[i]
               IN  /\ row.actual_payment =
                          Add(Add(Add(Add(Add(Add(Add(row.interest, row.principal),
                              row.extra_principal), row.repair_costs), row.hoa),
                              row.taxes), row.insurance), row.pmi)
                   /\ row.waste_cost =
                          Add(Add(Add(Add(Add(Add(row.interest, row.repair_costs),
                              row.hoa), row.taxes), row.insurance), row.pmi),
                              row.cost_of_capital)
                   /\ row.cost = row.waste_cost

\* A row is shown that pays principal and extra principal and is charged
\* interest, PMI and capital, so that its payment exceeds its cost.
C32_RowWithEveryOutflow ==
    /\ OnResultView
    /\ spreadsheet_data # <<>>
    /\ LET row == spreadsheet_data[1]
       IN  /\ \A f \in {"interest", "principal", "extra_principal", "pmi",
                         "cost_of_capital", "taxes"} : Gt(row[f], 0)
           /\ row.cost # row.actual_payment

\* The house value before the month of the shown row i is compounded.
HouseValueBefore(i) ==
    IF i = 1 THEN Resolved.house_value ELSE spreadsheet_data[i - 1].house_cost

\* A month's share of a category on a house value: a twelfth of the value
\* times the typed percent when the percent is selected, a twelfth of the
\* typed annual amount when the amount is.
MonthlyShare(use_percent, percent, amount, house_value) ==
    IF use_percent
    THEN DivLit(Mul(house_value, DivLit(ParseVal(percent), 100)), 12)
    ELSE DivLit(ParseVal(amount), 12)

\* C33: the house value of every row is that of the row before (the typed
\* house value for the first) compounded once at a twelfth of the annual
\* appreciation, and the row's property tax, insurance and maintenance are
\* a twelfth of that compounded value times the rate when a percentage is
\* selected and a twelfth of the annual amount when an amount is.
C33_CostsFollowCompoundedValue ==
    OnResultView
        => \A i \in 1..Len(spreadsheet_data) :
               LET row == spreadsheet_data[i]
                   monthly ==
                       DivLit(DivLit(ParseVal(inputs.house_appreciation_rate), 100), 12)
               IN  /\ row.house_cost = Mul(HouseValueBefore(i), Add(Lit(1), monthly))
                   /\ row.taxes =
                          MonthlyShare(inputs.use_property_tax_percent,
                                       inputs.property_tax_percent,
                                       inputs.property_tax_amount, row.house_cost)
                   /\ row.insurance =
                          MonthlyShare(inputs.use_insurance_percent,
                                       inputs.insurance_percent,
                                       inputs.insurance_amount, row.house_cost)
                   /\ row.repair_costs =
                          MonthlyShare(inputs.use_maintenance_percent,
                                       inputs.maintenance_percent,
                                       inputs.maintenance_amount, row.house_cost)

\* A one-year schedule is shown on an appreciating house: the insurance by
\* percent has grown from the first row to the last, the property tax by
\* amount has stayed the same.
C33_PercentGrowsAmountStays ==
    /\ OnResultView
    /\ Len(spreadsheet_data) = 12
    /\ ~inputs.use_property_tax_percent
    /\ Gt(spreadsheet_data[1].house_cost, Resolved.house_value)
    /\ Gt(spreadsheet_data[12].insurance, spreadsheet_data[1].insurance)
    /\ Gt(spreadsheet_data[12].taxes, 0)
    /\ spreadsheet_data[12].taxes = spreadsheet_data[1].taxes

----------------------------------------------------------------------------
(* Typing and erasing on the input steps.                                   *)

\* The field an input step edits: the step's own, or the side of its pair
\* that the selector names (lines 471, 493-497, ... 746).
ActiveNameOf(sc) ==
    LET dual(i) == IF inputs[DualFields[i].selector] THEN DualFields[i].percent
                   ELSE DualFields[i].amount
    IN  CASE sc = "HouseValue" -> "house_value"
          [] sc = "DownPayment" -> dual(1)
          [] sc = "HOAFee" -> "hoa_fee"
          [] sc = "InterestRate" -> "interest_rate"
          [] sc = "PropertyTax" -> dual(2)
          [] sc = "Insurance" -> dual(3)
          [] sc = "Maintenance" -> dual(4)
          [] sc = "PMI" -> dual(5)
          [] sc = "HouseAppreciation" -> "house_appreciation_rate"
          [] sc = "LoanTerm" -> "loan_term_years"
          [] sc = "ExtraPrincipal" -> "extra_principal_payment"

\* The field the input step shown edits.
ActiveName == ActiveNameOf(screen)

\* The key is handled on the input step shown.
HandledOnInputStep(key) ==
    \/ screen # "ExtraPrincipal" /\ EarlierInputStep(key)
    \/ screen = "ExtraPrincipal" /\ LastInputStep(key)

\* Backspace, and the characters the step shown binds to no other arm.
EntryKeys ==
    {key \in Keys :
        \/ key.code = "Backspace"
        \/ /\ key.code = "Char"
           /\ ~IsAdvanceKey(key) /\ ~IsRetreatKey(key)
           /\ ~(screen = "HouseValue" /\ key.c = "q")}

\* Step and character pairs: digits everywhere, "." everywhere but on
\* LoanTerm.
DigitsAndPoint ==
    {<<InputScreens[i], c>> : i \in 1..Len(InputScreens), c \in Digits}
    \cup {<<sc, ".">> : sc \in {InputScreens[i] : i \in 1..Len(InputScreens)}
                                \ {"LoanTerm"}}

\* The same with "-" on HouseAppreciation (line 700).
DigitsPointAndSign == DigitsAndPoint \cup {<<"HouseAppreciation", "-">>}

\* The inputs an entry key leaves when the pairs of `accepted` are appended
\* and every other character is ignored.
AfterEntry(key, accepted) ==
    IF key.code = "Backspace"
    THEN [inputs EXCEPT ![ActiveName] =
                            IF @ = <<>> THEN @ ELSE SubSeq(@, 1, Len(@) - 1)]
    ELSE IF <<screen, key.c>> \in accepted
         THEN [inputs EXCEPT ![ActiveName] = Append(@, key.c)]
         ELSE inputs

\* Every entry key handled in the step leaves the inputs of AfterEntry and
\* changes nothing else of the App.
EntriesFollow(accepted) ==
    \A key \in EntryKeys :
        HandledOnInputStep(key)
            => /\ inputs' = AfterEntry(key, accepted)
               /\ UNCHANGED <<screen, spreadsheet_data, table_state, summary,
                              status, files, stderr>>

C35_SignOnlyLeads ==
    \A i \in 2..Len(inputs.house_appreciation_rate) :
        inputs.house_appreciation_rate[i] # "-"

\* C36: whenever Advance on ExtraPrincipal would run the engine, every text
\* the engine reads parses as a number, and no computation has been reported
\* as failed.
C36_ConfirmNeverFails ==
    /\ (screen = "ExtraPrincipal" /\ inputs.extra_principal_payment # <<>>)
           => Resolved.ok
    /\ stderr # Some("Error calculating mortgage")

\* C37: the active field of every input step before the step shown is
\* non-empty; on Spreadsheet and Summary, and so whenever the engine has
\* been run, that of all eleven is.
C37_EarlierFieldsFilled ==
    \A i \in 1..Len(InputScreens) :
        i < StepIndex(screen) => inputs[ActiveNameOf(InputScreens[i])] # <<>>

\* C38: on Spreadsheet and Summary a Summary is held, and the rows and the
\* Summary held are those the engine computes from the inputs as they are.
C38_ResultsMatchInputs ==
    OnResultView
        => /\ summary # None
           /\ LET outcome == calculate_mortgage(inputs, <<>>, None)
              IN  /\ ~outcome.err
                  /\ spreadsheet_data = outcome.spreadsheet_data
                  /\ summary = outcome.summary

\* Summary is shown with the rows of inputs whose house value and extra
\* principal were typed.
C38_SummaryOfTypedInputs ==
    /\ screen = "Summary"
    /\ edits = 2
    /\ inputs.extra_principal_payment = <<"0", "1">>
    /\ spreadsheet_data # <<>>

\* C39: the results shown were computed from a house value above 0 and a
\* loan term above 0.
C39_PositiveHouseValueAndTerm ==
    OnResultView
        => /\ Gt(Resolved.house_value, 0)
           /\ Gt(ParseVal(inputs.loan_term_years), 0)

====
